---- MODULE Spec2Model ----
(***************************************************************************)
(* StaleableCache (cache/staleable.go): a stale-while-revalidate wrapper   *)
(* over a key/value cache.  Get coalesces concurrent callers of one key on *)
(* an in-flight record (mapEntry) kept in inprogressMap, classifies the    *)
(* entry from its shifted TTL and reloads it synchronously or in a         *)
(* background goroutine.  Every Get is modelled statement by statement at  *)
(* the places where it touches shared state (the map, the store, the       *)
(* record's channel); Set, GetWithTTL and Delete are single store calls.   *)
(***************************************************************************)
EXTENDS Integers, Sequences, FiniteSets

\* ---------------------------------------------------------------- bounds
MaxMargin == 1           \* minimumTTL (max stale margin) ranges over 0..MaxMargin
MaxTTL == 2              \* refreshTTL ranges over 0..MaxTTL where Set is examined
MaxExp == 2              \* expirations given to Set range over 0..MaxExp
MaxOverdue == 1          \* how far below 0 the store lets a remaining TTL fall

Callers == {"c1", "c2"}  \* goroutines calling Get
Keys == {"k1", "k2"}     \* cache keys (getCacheKey of the caller's key)
HotKeys == {"k1"}        \* the key the concurrent callers contend for
\* A mapEntry is live while a caller holds it, the map holds it or its
\* background goroutine runs: at most one per caller and one per key at once.
Slots == 1 .. (Cardinality(Callers) + Cardinality(Keys))

\* ---------------------------------------------------------------- values
ZeroValue == "zero"      \* *new(T)
LoadValues == {"loaded"} \* what the load function may return
SetValues == {"set"}     \* what callers of Set write

NilErr == "nil"
NotFound == "NotFound"   \* *store.NotFound
NotFoundValue == "NotFoundValue" \* store.NotFound{}, the struct not its pointer
StoreErr == "StoreErr"   \* any other error of the underlying store
LoadErr == "LoadErr"     \* an error of the load function
Canceled == "Canceled"   \* context.Canceled, from a load given a cancelled context
Background == "background" \* context.Background()

VARIABLES
    minimumTTL,      \* s.minimumTTL, WithMaxStaleCacheTTL
    refreshTTL,      \* s.refreshTTL, WithTTL
    loadFunc,        \* s.loadFunc != nil
    shouldCache,     \* s.shouldCache != nil
    admitted,        \* the values for which the predicate returns true
    store,           \* the underlying cache: key -> [present, value, ttl]
    inprogressMap,   \* s.inprogressMap: key -> slot of its mapEntry, 0 if none
    entries,         \* the mapEntry objects, by slot
    bg,              \* the background goroutine of each mapEntry
    pc,              \* where each caller is inside Get
    ent,             \* the mapEntry each caller holds (mEntry), 0 if none
    cancelled,       \* whether the context each caller passes to Get is cancelled
    written,         \* per key, the last write the store took and the time since
    observe,         \* whether the calls below are recorded in lastOp
    lastOp           \* the last call made to the underlying store, if recorded

vars == <<minimumTTL, refreshTTL, loadFunc, shouldCache, admitted, store, inprogressMap,
          entries, bg, pc, ent, cancelled, written, observe, lastOp>>
\* what no step of the cache changes: its options and the callers' contexts
config == <<minimumTTL, refreshTTL, loadFunc, shouldCache, admitted, observe, cancelled>>

\* ------------------------------------------------------- underlying store
Absent == [present |-> FALSE, value |-> ZeroValue, ttl |-> 0]

\* the expiration a caller gave to Set, 0 if none
Given(options) == IF options = <<>> THEN 0 ELSE options[Len(options)].expiration

\* the expiration Set is to resolve: the caller's if not zero, else the default
Resolved(options) == IF Given(options) # 0 THEN Given(options) ELSE refreshTTL

\* nothing written, or what was has been deleted or evicted
NoWrite == [value |-> ZeroValue, e |-> 0, elapsed |-> -1]

\* written once Set(key, value, given...) has or has not reached the store:
\* the value, the expiration e the caller asked for and the time since
Wrote(key, value, given, fails) ==
    IF fails THEN written
    ELSE [written EXCEPT ![key] =
            [value |-> value, e |-> Resolved(given), elapsed |-> 0]]

\* store.WithExpiration(d)
WithExpiration(d) == [expiration |-> d]

RECURSIVE ApplyFrom(_, _)
ApplyFrom(options, acc) ==
    IF options = <<>> THEN acc
    ELSE ApplyFrom(Tail(options), Head(options).expiration)

\* store.ApplyOptions(options...).Expiration(): the options are applied in
\* order to a zero Options, so the last expiration given wins.
ApplyOptions(options) == ApplyFrom(options, 0)

\* the errors the underlying GetWithTTL may fail with whatever it holds, nil
\* when it does not fail
ReadFailures == {NilErr, StoreErr, NotFoundValue}

\* s.cache.GetWithTTL(ctx, key): (value, remaining ttl, error)
CacheGetWithTTL(key, fails) ==
    IF fails # NilErr THEN [value |-> ZeroValue, ttl |-> 0, err |-> fails]
    ELSE IF ~store[key].present
         THEN [value |-> ZeroValue, ttl |-> 0, err |-> NotFound]
         ELSE [value |-> store[key].value, ttl |-> store[key].ttl, err |-> NilErr]

\* s.cache.Set(ctx, key, value, options...): the store after the call
CacheSet(key, value, options, fails) ==
    IF fails THEN store
    ELSE [store EXCEPT ![key] =
            [present |-> TRUE, value |-> value, ttl |-> ApplyOptions(options)]]

\* ---------------------------------------------------------- StaleableCache
\* the store's ttl passed on as it is
GetWithTTLUnshifted(key, fails) ==
    LET r == CacheGetWithTTL(key, fails) IN
    IF r.err # NilErr
    THEN [value |-> ZeroValue, ttl |-> 0, err |-> r.err]
    ELSE [value |-> r.value, ttl |-> r.ttl, err |-> NilErr]

\* GetWithTTL: the stored value with the margin taken off its ttl
GetWithTTL(key, fails) ==
    LET r == CacheGetWithTTL(key, fails) IN
    IF r.err # NilErr
    THEN [value |-> ZeroValue, ttl |-> 0, err |-> r.err]
    ELSE [value |-> r.value, ttl |-> r.ttl - minimumTTL, err |-> NilErr]

\* no fall back to refreshTTL
SetExpirationNoDefault(options) == ApplyOptions(options)

\* Set: the expiration the call resolves (the caller's, else refreshTTL)
SetExpiration(options) ==
    LET expiration == ApplyOptions(options) IN
    IF expiration = 0 THEN refreshTTL ELSE expiration

\* the margin's option put before the caller's, which then override it
SetOptionsPrepended(options) ==
    <<WithExpiration(minimumTTL + SetExpiration(options))>> \o options

\* Set: the options handed to the underlying Set
SetOptions(options) ==
    Append(options, WithExpiration(minimumTTL + SetExpiration(options)))

\* a predicate that admits whatever it is asked about
shouldCacheFnAdmitsAll(key, value) == TRUE

\* the configured ShouldCachePredicate
shouldCacheFn(key, value) == value \in admitted

\* the margin's last instant counted as expired
ClassifyInclusive(r) ==
    IF r.err # NilErr THEN (IF r.err = NotFound THEN "notfound" ELSE "error")
    ELSE IF r.ttl + minimumTTL <= 0 THEN "expired"
    ELSE IF r.ttl < 0 THEN "stale"
    ELSE "fresh"

\* the stale test made before the expired one
ClassifyStaleFirst(r) ==
    IF r.err # NilErr THEN (IF r.err = NotFound THEN "notfound" ELSE "error")
    ELSE IF r.ttl < 0 THEN "stale"
    ELSE IF r.ttl + minimumTTL < 0 THEN "expired"
    ELSE "fresh"

\* the type of the error not looked at: every error is surfaced
ClassifyNotFoundAsError(r) ==
    IF r.err # NilErr THEN "error"
    ELSE IF r.ttl + minimumTTL < 0 THEN "expired"
    ELSE IF r.ttl < 0 THEN "stale"
    ELSE "fresh"

\* every error of the store taken for a missing key
ClassifyAnyErrorMisses(r) ==
    IF r.err # NilErr THEN "notfound"
    ELSE IF r.ttl + minimumTTL < 0 THEN "expired"
    ELSE IF r.ttl < 0 THEN "stale"
    ELSE "fresh"

\* the branch Get takes on what GetWithTTL returned
Classify(r) ==
    IF r.err # NilErr THEN (IF r.err = NotFound THEN "notfound" ELSE "error")
    ELSE IF r.ttl + minimumTTL < 0 THEN "expired"
    ELSE IF r.ttl < 0 THEN "stale"
    ELSE "fresh"

\* ------------------------------------------------------------- mapEntry
NoEntry ==
    [key |-> "", closed |-> FALSE, value |-> ZeroValue, err |-> NilErr,
     read |-> ZeroValue, class |-> "none", nGet |-> 0, nLoad |-> 0, nSet |-> 0,
     loaded |-> <<>>, rets |-> {}, ctx |-> "none", got |-> NilErr, by |-> ""]

\* &mapEntry[T]{lockChannel: make(chan bool)}
NewEntry(key) == [NoEntry EXCEPT !.key = key]

\* the entry as the caller that stored it holds it
LedBy(c, key) == [NewEntry(key) EXCEPT !.by = c]

\* a slot nobody refers to any more
Dead(s) ==
    /\ \A c \in Callers : ent[c] # s
    /\ \A k \in Keys : inprogressMap[k] # s
    /\ bg[s] \in {"none", "done"}

FreeSlot == CHOOSE s \in Slots : Dead(s) /\ \A u \in Slots : Dead(u) => s <= u

NoOp == [op |-> "none"]

\* what lastOp becomes when a call is made
Observed(call) == IF observe THEN call ELSE NoOp

\* the entries and goroutines once the callers in leaving have let go of
\* their entry and the map is m: an entry nothing refers to any more is garbage
Collect(es, gs, m, leaving) ==
    [s \in Slots |->
        IF /\ \A d \in Callers \ leaving : ent[d] # s
           /\ \A k \in Keys : m[k] # s
           /\ gs[s] \in {"none", "done"}
        THEN [e |-> NoEntry, g |-> "none"]
        ELSE [e |-> es[s], g |-> gs[s]]]

\* NewStaleable over an empty store: nothing is in flight
Constructed ==
    /\ store = [k \in Keys |-> Absent]
    /\ inprogressMap = [k \in Keys |-> 0]
    /\ entries = [s \in Slots |-> NoEntry]
    /\ bg = [s \in Slots |-> "none"]
    /\ pc = [c \in Callers |-> "idle"]
    /\ ent = [c \in Callers |-> 0]
    /\ cancelled = [c \in Callers |-> FALSE]
    /\ written = [k \in Keys |-> NoWrite]
    /\ lastOp = NoOp

\* the options of NewStaleable, each given or not (refreshTTL is 0 without
\* WithTTL); a predicate, where one is configured, refuses every loaded value
\* (line 126: one that admits them all acts as none)
Init ==
    /\ minimumTTL \in 0 .. MaxMargin
    /\ refreshTTL \in {0, 1}
    /\ loadFunc \in BOOLEAN
    /\ shouldCache \in BOOLEAN
    /\ admitted = (IF shouldCache THEN {} ELSE LoadValues)
    /\ observe = FALSE
    /\ Constructed

\* the configurations whose refresh calls a load function: a positive margin
\* and a load function (the predicate is asked only after it has returned);
\* WithTTL is not given, which leaves refreshTTL 0
InitRefreshing ==
    /\ minimumTTL \in 1 .. MaxMargin
    /\ refreshTTL = 0
    /\ loadFunc = TRUE
    /\ shouldCache = FALSE
    /\ admitted = LoadValues
    /\ observe = FALSE
    /\ Constructed

\* a cache with a load function and no predicate, WithTTL given or not, its
\* store's calls recorded
InitGets ==
    /\ minimumTTL \in 0 .. MaxMargin
    /\ refreshTTL \in {0, 1}
    /\ loadFunc = TRUE
    /\ shouldCache = FALSE
    /\ admitted = LoadValues
    /\ observe = TRUE
    /\ Constructed

\* the same cache used by one goroutine, with every call to the underlying
\* store recorded in lastOp; a predicate, where one is configured, refuses
\* every loaded value (one that admits them all acts as none)
InitCalls ==
    /\ minimumTTL \in 0 .. MaxMargin
    /\ refreshTTL \in 0 .. MaxTTL
    /\ loadFunc \in BOOLEAN
    /\ shouldCache \in BOOLEAN
    /\ admitted = (IF shouldCache THEN {} ELSE LoadValues)
    /\ observe = TRUE
    /\ Constructed

\* ------------------------------------------------------------------ Get
\* whether context ctx, a caller's or the background one, is done
Done(ctx) == ctx # Background /\ cancelled[ctx]

\* the context of the caller that started the refresh
RefreshContextOfCaller(c) == c

\* line 98: the context the goroutine gives loadAndStore
RefreshContext(c) == Background

\* what the load function may answer when called with context ctx
LoadOutcomes(ctx) ==
    {[value |-> v, err |-> NilErr] : v \in LoadValues}
        \cup {[value |-> ZeroValue, err |-> LoadErr]}
        \cup (IF Done(ctx) THEN {[value |-> ZeroValue, err |-> Canceled]} ELSE {})

\* the predicate never asked
LoadAndStoreWritesUnasked(key, out) == out.err = NilErr

\* the error of the load function not looked at
LoadAndStoreWritesFailed(key, out) ==
    ~(shouldCache /\ ~shouldCacheFn(key, out.value))

\* loadAndStore stores the loaded value unless the load failed or the
\* predicate refuses it
LoadAndStoreWrites(key, out) ==
    /\ out.err = NilErr
    /\ ~(shouldCache /\ ~shouldCacheFn(key, out.value))

\* the underlying Set called directly, with the bare refreshTTL
ReloadSetDirect(key, out, fails) ==
    IF LoadAndStoreWrites(key, out)
    THEN /\ store' = CacheSet(key, out.value, <<WithExpiration(refreshTTL)>>, fails)
         /\ written' = Wrote(key, out.value, <<>>, fails)
         /\ lastOp' = Observed([op |-> "Set", by |-> "reload", key |-> key,
                       value |-> out.value, given |-> <<>>,
                       options |-> <<WithExpiration(refreshTTL)>>,
                       ret |-> IF fails THEN StoreErr ELSE NilErr])
    ELSE UNCHANGED <<store, written, lastOp>>

\* the result of what GetWithTTL returned kept when there is no loadFunc
NoLoadFuncKeeps(seen) == [value |-> seen.value, err |-> seen.err]

\* lines 118-120: without a loadFunc loadAndStore returns *new(T), nil
NoLoadFunc(seen) == [value |-> ZeroValue, err |-> NilErr]

\* the Set of loadAndStore: s.Set(ctx, key, res), with no option
ReloadSet(key, out, fails) ==
    IF LoadAndStoreWrites(key, out)
    THEN /\ store' = CacheSet(key, out.value, SetOptions(<<>>), fails)
         /\ written' = Wrote(key, out.value, <<>>, fails)
         /\ lastOp' = Observed([op |-> "Set", by |-> "reload", key |-> key,
                       value |-> out.value, given |-> <<>>,
                       options |-> SetOptions(<<>>),
                       ret |-> IF fails THEN StoreErr ELSE NilErr])
    ELSE UNCHANGED <<store, written, lastOp>>

\* what the Set of loadAndStore returned, "none" when it was not called; it
\* is ignored (line 129) and kept only where the store's calls are recorded
ReloadSetErr(key, out, fails) ==
    IF ~observe THEN "unseen"
    ELSE IF LoadAndStoreWrites(key, out)
    THEN (IF fails THEN StoreErr ELSE NilErr)
    ELSE "none"

\* a Store in place of LoadOrStore: every caller installs its own entry
GetStoreAlways(c, key) ==
    /\ pc[c] = "idle"
    /\ ent' = [ent EXCEPT ![c] = FreeSlot]
    /\ inprogressMap' = [inprogressMap EXCEPT ![key] = FreeSlot]
    /\ entries' = [entries EXCEPT ![FreeSlot] = LedBy(c, key)]
    /\ pc' = [pc EXCEPT ![c] = "getttl"]
    /\ UNCHANGED <<config, store, written, bg, lastOp>>

\* an entry remembered after its Delete: a caller that finds none in the map
\* takes the result of one a caller of the key still holds
GetLoadOrStoreRemembers(c, key) ==
    /\ pc[c] = "idle"
    /\ IF inprogressMap[key] # 0
       THEN /\ ent' = [ent EXCEPT ![c] = inprogressMap[key]]
            /\ pc' = [pc EXCEPT ![c] = "wait"]
            /\ UNCHANGED <<inprogressMap, entries>>
       ELSE IF \E s \in Slots : entries[s].key = key /\ entries[s].closed
       THEN /\ ent' = [ent EXCEPT ![c] =
                        CHOOSE s \in Slots : entries[s].key = key /\ entries[s].closed]
            /\ pc' = [pc EXCEPT ![c] = "wait"]
            /\ UNCHANGED <<inprogressMap, entries>>
       ELSE /\ ent' = [ent EXCEPT ![c] = FreeSlot]
            /\ inprogressMap' = [inprogressMap EXCEPT ![key] = FreeSlot]
            /\ entries' = [entries EXCEPT ![FreeSlot] = LedBy(c, key)]
            /\ pc' = [pc EXCEPT ![c] = "getttl"]
    /\ UNCHANGED <<config, store, written, bg, lastOp>>

\* the key left out of LoadOrStore: a caller waits on any entry in flight
GetLoadOrStoreAnyKey(c, key) ==
    /\ pc[c] = "idle"
    /\ IF \E k \in Keys : inprogressMap[k] # 0
       THEN /\ ent' = [ent EXCEPT ![c] =
                        inprogressMap[CHOOSE k \in Keys : inprogressMap[k] # 0]]
            /\ pc' = [pc EXCEPT ![c] = "wait"]
            /\ UNCHANGED <<inprogressMap, entries>>
       ELSE /\ ent' = [ent EXCEPT ![c] = FreeSlot]
            /\ inprogressMap' = [inprogressMap EXCEPT ![key] = FreeSlot]
            /\ entries' = [entries EXCEPT ![FreeSlot] = LedBy(c, key)]
            /\ pc' = [pc EXCEPT ![c] = "getttl"]
    /\ UNCHANGED <<config, store, written, bg, lastOp>>

\* line 75: LoadOrStore, atomically; a caller that finds an entry waits on it
GetLoadOrStore(c, key) ==
    /\ pc[c] = "idle"
    /\ IF inprogressMap[key] # 0
       THEN /\ ent' = [ent EXCEPT ![c] = inprogressMap[key]]
            /\ pc' = [pc EXCEPT ![c] = "wait"]
            /\ UNCHANGED <<inprogressMap, entries>>
       ELSE /\ ent' = [ent EXCEPT ![c] = FreeSlot]
            /\ inprogressMap' = [inprogressMap EXCEPT ![key] = FreeSlot]
            /\ entries' = [entries EXCEPT ![FreeSlot] = LedBy(c, key)]
            /\ pc' = [pc EXCEPT ![c] = "getttl"]
    /\ UNCHANGED <<config, store, written, bg, lastOp>>

\* the receive left out: the caller returns what the entry holds right now
GetWaitNoReceive(c) ==
    /\ pc[c] = "wait"
    /\ entries' = [entries EXCEPT ![ent[c]].rets =
                     @ \cup {<<"waiter", entries[ent[c]].value, entries[ent[c]].err>>}]
    /\ pc' = [pc EXCEPT ![c] = "done"]
    /\ UNCHANGED <<config, store, written, inprogressMap, bg, ent, lastOp>>

\* the waiter returns what the store holds now in place of the entry's value
GetWaitReadsStore(c) ==
    /\ pc[c] = "wait"
    /\ entries[ent[c]].closed
    /\ entries' = [entries EXCEPT ![ent[c]].rets =
                     @ \cup {<<"waiter",
                               GetWithTTL(entries[ent[c]].key, NilErr).value,
                               entries[ent[c]].err>>}]
    /\ pc' = [pc EXCEPT ![c] = "done"]
    /\ UNCHANGED <<config, store, written, inprogressMap, bg, ent, lastOp>>

\* a select on ctx.Done() beside the receive: a cancelled waiter returns
GetWaitOrCancelled(c) ==
    /\ pc[c] = "wait"
    /\ entries[ent[c]].closed \/ cancelled[c]
    /\ entries' = [entries EXCEPT ![ent[c]].rets =
                     @ \cup {<<"waiter", entries[ent[c]].value, entries[ent[c]].err>>}]
    /\ pc' = [pc EXCEPT ![c] = "done"]
    /\ UNCHANGED <<config, store, written, inprogressMap, bg, ent, lastOp>>

\* lines 78-79: the channel is closed; return what the entry holds
GetWait(c) ==
    /\ pc[c] = "wait"
    /\ entries[ent[c]].closed
    /\ entries' = [entries EXCEPT ![ent[c]].rets =
                     @ \cup {<<"waiter", entries[ent[c]].value, entries[ent[c]].err>>}]
    /\ pc' = [pc EXCEPT ![c] = "done"]
    /\ UNCHANGED <<config, store, written, inprogressMap, bg, ent, lastOp>>

\* leader, for the caller that stored its entry, waiter for one that found it
Role(c) == IF entries[ent[c]].by = c THEN "leader" ELSE "waiter"

\* the entries once caller c has let go of its entry: rets holds what the
\* callers that have returned and still hold the entry returned
Released(c) ==
    [entries EXCEPT
        ![ent[c]].rets =
            {r \in @ : \/ r[1] # Role(c)
                       \/ \E d \in Callers \ {c} : /\ ent[d] = ent[c]
                                                    /\ pc[d] = "done"
                                                    /\ Role(d) = Role(c)},
        ![ent[c]].by = IF @ = c THEN "" ELSE @]

\* the caller has its result and lets go of the entry
GetReturn(c) ==
    /\ pc[c] = "done"
    /\ pc' = [pc EXCEPT ![c] = "idle"]
    /\ ent' = [ent EXCEPT ![c] = 0]
    /\ entries' = [s \in Slots |->
                     Collect(Released(c), bg, inprogressMap, {c})[s].e]
    /\ bg' = [s \in Slots |-> Collect(Released(c), bg, inprogressMap, {c})[s].g]
    /\ UNCHANGED <<config, store, written, inprogressMap, lastOp>>

\* lines 82-103 up to the next shared step: GetWithTTL, the entry's value and
\* error, and the branch: a synchronous loadAndStore (not found, expired),
\* the go statement (stale), or straight to Delete
GetLeaderRead(c) ==
    /\ pc[c] = "getttl"
    /\ \E fails \in ReadFailures :
         LET e == ent[c]
             r == GetWithTTL(entries[e].key, fails)
             class == Classify(r)
             seen == [entries[e] EXCEPT !.value = r.value, !.err = r.err,
                        !.read = r.value, !.got = r.err, !.class = class,
                        !.nGet = @ + 1]
         IN
         IF class \in {"notfound", "expired"}
         THEN IF loadFunc
              THEN /\ entries' = [entries EXCEPT ![e] =
                                    [seen EXCEPT !.nLoad = @ + 1]]
                   /\ pc' = [pc EXCEPT ![c] = "load"]
                   /\ bg' = bg
              ELSE /\ entries' = [entries EXCEPT ![e] =
                                    [seen EXCEPT !.value = NoLoadFunc(seen).value,
                                       !.err = NoLoadFunc(seen).err]]
                   /\ pc' = [pc EXCEPT ![c] = "delete"]
                   /\ bg' = bg
         ELSE IF class = "stale"
         THEN /\ entries' = [entries EXCEPT ![e] =
                               [seen EXCEPT !.ctx = RefreshContext(c)]]
              /\ bg' = [bg EXCEPT ![e] = "spawned"]
              /\ pc' = [pc EXCEPT ![c] = "close"]
         ELSE /\ entries' = [entries EXCEPT ![e] = seen]
              /\ pc' = [pc EXCEPT ![c] = "delete"]
              /\ bg' = bg
    /\ UNCHANGED <<config, store, written, inprogressMap, ent, lastOp>>

\* the load given a context that is done when any caller of the entry's is
GetLeaderLoadAnyContext(c) ==
    /\ pc[c] = "load"
    /\ \E d \in {x \in Callers : ent[x] = ent[c]} :
       \E out \in LoadOutcomes(d), fails \in BOOLEAN :
         LET e == ent[c]
             writes == LoadAndStoreWrites(entries[e].key, out)
         IN
         /\ ReloadSet(entries[e].key, out, fails)
         /\ entries' = [entries EXCEPT ![e] =
                          [@ EXCEPT !.value = out.value, !.err = out.err,
                             !.loaded = <<out.value, out.err,
                                          ReloadSetErr(entries[e].key, out, fails)>>,
                             !.nSet = IF writes THEN @ + 1 ELSE @]]
    /\ pc' = [pc EXCEPT ![c] = "delete"]
    /\ UNCHANGED <<config, inprogressMap, bg, ent>>

\* the value GetWithTTL returned served when the load fails
GetLeaderLoadKeepsOnError(c) ==
    /\ pc[c] = "load"
    /\ \E out \in LoadOutcomes(c), fails \in BOOLEAN :
         LET e == ent[c]
             writes == LoadAndStoreWrites(entries[e].key, out)
             kept == out.err # NilErr /\ entries[e].got = NilErr
         IN
         /\ ReloadSet(entries[e].key, out, fails)
         /\ entries' = [entries EXCEPT ![e] =
                          [@ EXCEPT !.value = IF kept THEN entries[e].read ELSE out.value,
                             !.err = IF kept THEN NilErr ELSE out.err,
                             !.loaded = <<out.value, out.err,
                                          ReloadSetErr(entries[e].key, out, fails)>>,
                             !.nSet = IF writes THEN @ + 1 ELSE @]]
    /\ pc' = [pc EXCEPT ![c] = "delete"]
    /\ UNCHANGED <<config, inprogressMap, bg, ent>>

\* the error of loadAndStore's Set returned in place of the load's
GetLeaderLoadSurfacesSetError(c) ==
    /\ pc[c] = "load"
    /\ \E out \in LoadOutcomes(c), fails \in BOOLEAN :
         LET e == ent[c]
             writes == LoadAndStoreWrites(entries[e].key, out)
         IN
         /\ ReloadSet(entries[e].key, out, fails)
         /\ entries' = [entries EXCEPT ![e] =
                          [@ EXCEPT !.value = out.value,
                             !.err = IF writes /\ fails THEN StoreErr ELSE out.err,
                             !.loaded = <<out.value, out.err,
                                          ReloadSetErr(entries[e].key, out, fails)>>,
                             !.nSet = IF writes THEN @ + 1 ELSE @]]
    /\ pc' = [pc EXCEPT ![c] = "delete"]
    /\ UNCHANGED <<config, inprogressMap, bg, ent>>

\* lines 88, 93: the load function returns to the leader; loadAndStore
\* stores the value and the entry takes the result
GetLeaderLoad(c) ==
    /\ pc[c] = "load"
    /\ \E out \in LoadOutcomes(c), fails \in BOOLEAN :
         LET e == ent[c]
             writes == LoadAndStoreWrites(entries[e].key, out)
         IN
         /\ ReloadSet(entries[e].key, out, fails)
         /\ entries' = [entries EXCEPT ![e] =
                          [@ EXCEPT !.value = out.value, !.err = out.err,
                             !.loaded = <<out.value, out.err,
                                          ReloadSetErr(entries[e].key, out, fails)>>,
                             !.nSet = IF writes THEN @ + 1 ELSE @]]
    /\ pc' = [pc EXCEPT ![c] = "delete"]
    /\ UNCHANGED <<config, inprogressMap, bg, ent>>

\* the else branch of lines 101-103 left out: a fresh entry stays in the map
GetLeaderDeleteNotFresh(c) ==
    /\ pc[c] = "delete"
    /\ inprogressMap' =
         IF entries[ent[c]].class = "fresh" THEN inprogressMap
         ELSE [inprogressMap EXCEPT ![entries[ent[c]].key] = 0]
    /\ pc' = [pc EXCEPT ![c] = "close"]
    /\ UNCHANGED <<config, store, written, entries, bg, ent, lastOp>>

\* the Delete of line 90 left out: after a store error the entry stays
GetLeaderDeleteNotOnError(c) ==
    /\ pc[c] = "delete"
    /\ inprogressMap' =
         IF entries[ent[c]].class = "error" THEN inprogressMap
         ELSE [inprogressMap EXCEPT ![entries[ent[c]].key] = 0]
    /\ pc' = [pc EXCEPT ![c] = "close"]
    /\ UNCHANGED <<config, store, written, entries, bg, ent, lastOp>>

\* lines 90, 94, 102: s.inprogressMap.Delete(stringKey)
GetLeaderDelete(c) ==
    /\ pc[c] = "delete"
    /\ inprogressMap' = [inprogressMap EXCEPT ![entries[ent[c]].key] = 0]
    /\ pc' = [pc EXCEPT ![c] = "close"]
    /\ UNCHANGED <<config, store, written, entries, bg, ent, lastOp>>

\* the close skipped when the entry holds an error: the leader just returns
GetLeaderCloseUnlessError(c) ==
    /\ pc[c] = "close"
    /\ entries' = [entries EXCEPT ![ent[c]] =
                     [@ EXCEPT !.closed = (entries[ent[c]].err = NilErr),
                        !.rets = @ \cup {<<"leader", entries[ent[c]].value,
                                           entries[ent[c]].err>>}]]
    /\ pc' = [pc EXCEPT ![c] = "done"]
    /\ UNCHANGED <<config, store, written, inprogressMap, bg, ent, lastOp>>

\* the channel closed only once the refresh is over
GetLeaderCloseAfterRefresh(c) ==
    /\ pc[c] = "close"
    /\ bg[ent[c]] \in {"none", "done"}
    /\ entries' = [entries EXCEPT ![ent[c]] =
                     [@ EXCEPT !.closed = TRUE,
                        !.rets = @ \cup {<<"leader", entries[ent[c]].value,
                                           entries[ent[c]].err>>}]]
    /\ pc' = [pc EXCEPT ![c] = "done"]
    /\ UNCHANGED <<config, store, written, inprogressMap, bg, ent, lastOp>>

\* lines 105-107: close(mEntry.lockChannel) and return the entry's result
GetLeaderClose(c) ==
    /\ pc[c] = "close"
    /\ entries' = [entries EXCEPT ![ent[c]] =
                     [@ EXCEPT !.closed = TRUE,
                        !.rets = @ \cup {<<"leader", entries[ent[c]].value,
                                           entries[ent[c]].err>>}]]
    /\ pc' = [pc EXCEPT ![c] = "done"]
    /\ UNCHANGED <<config, store, written, inprogressMap, bg, ent, lastOp>>

\* line 98: the goroutine enters loadAndStore and calls the load function
BgStart(s) ==
    /\ bg[s] = "spawned"
    /\ IF loadFunc
       THEN /\ bg' = [bg EXCEPT ![s] = "load"]
            /\ entries' = [entries EXCEPT ![s].nLoad = @ + 1]
       ELSE /\ bg' = [bg EXCEPT ![s] = "delete"]
            /\ entries' = entries
    /\ UNCHANGED <<config, store, written, inprogressMap, pc, ent, lastOp>>

\* the goroutine keeps the result in the entry, as the synchronous branches do
BgLoadIntoEntry(s) ==
    /\ bg[s] = "load"
    /\ \E out \in LoadOutcomes(entries[s].ctx), fails \in BOOLEAN :
         /\ ReloadSet(entries[s].key, out, fails)
         /\ entries' = [entries EXCEPT ![s] =
                          [@ EXCEPT !.value = out.value, !.err = out.err,
                             !.loaded = <<out.value, out.err,
                                          ReloadSetErr(entries[s].key, out, fails)>>,
                             !.nSet = IF LoadAndStoreWrites(entries[s].key, out)
                                      THEN @ + 1 ELSE @]]
    /\ bg' = [bg EXCEPT ![s] = "delete"]
    /\ UNCHANGED <<config, inprogressMap, pc, ent>>

\* the goroutine gives up when the load fails, before its Delete
BgLoadAbortsOnError(s) ==
    /\ bg[s] = "load"
    /\ \E out \in LoadOutcomes(entries[s].ctx), fails \in BOOLEAN :
         /\ ReloadSet(entries[s].key, out, fails)
         /\ entries' = [entries EXCEPT ![s] =
                          [@ EXCEPT !.loaded = <<out.value, out.err,
                                       ReloadSetErr(entries[s].key, out, fails)>>,
                             !.nSet = IF LoadAndStoreWrites(entries[s].key, out)
                                      THEN @ + 1 ELSE @]]
         /\ bg' = [bg EXCEPT ![s] = IF out.err = NilErr THEN "delete" ELSE "done"]
    /\ UNCHANGED <<config, inprogressMap, pc, ent>>

\* the refresh's Set made only when the store still holds what was read
BgLoadIfUnchanged(s) ==
    /\ bg[s] = "load"
    /\ \E out \in LoadOutcomes(entries[s].ctx), fails \in BOOLEAN :
         LET same == /\ store[entries[s].key].present
                     /\ store[entries[s].key].value = entries[s].read
         IN
         /\ IF same THEN ReloadSet(entries[s].key, out, fails)
            ELSE UNCHANGED <<store, written, lastOp>>
         /\ entries' = [entries EXCEPT ![s] =
                          [@ EXCEPT !.loaded = <<out.value, out.err,
                                       IF same
                                       THEN ReloadSetErr(entries[s].key, out, fails)
                                       ELSE "none">>,
                             !.nSet = IF same /\ LoadAndStoreWrites(entries[s].key, out)
                                      THEN @ + 1 ELSE @]]
    /\ bg' = [bg EXCEPT ![s] = "delete"]
    /\ UNCHANGED <<config, inprogressMap, pc, ent>>

\* line 98: the load function returns to the goroutine; the result is dropped
BgLoad(s) ==
    /\ bg[s] = "load"
    /\ \E out \in LoadOutcomes(entries[s].ctx), fails \in BOOLEAN :
         /\ ReloadSet(entries[s].key, out, fails)
         /\ entries' = [entries EXCEPT ![s] =
                          [@ EXCEPT !.loaded = <<out.value, out.err,
                                       ReloadSetErr(entries[s].key, out, fails)>>,
                             !.nSet = IF LoadAndStoreWrites(entries[s].key, out)
                                      THEN @ + 1 ELSE @]]
    /\ bg' = [bg EXCEPT ![s] = "delete"]
    /\ UNCHANGED <<config, inprogressMap, pc, ent>>

\* line 99 left out: the goroutine ends and the entry stays in the map
BgDeleteLeaves(s) ==
    /\ bg[s] = "delete"
    /\ bg' = [bg EXCEPT ![s] = "done"]
    /\ UNCHANGED <<config, store, written, inprogressMap, entries, pc, ent, lastOp>>

\* line 99: s.inprogressMap.Delete(stringKey)
BgDelete(s) ==
    /\ bg[s] = "delete"
    /\ inprogressMap' = [inprogressMap EXCEPT ![entries[s].key] = 0]
    /\ LET gs == [bg EXCEPT ![s] = "done"] IN
       /\ entries' = [u \in Slots |-> Collect(entries, gs, inprogressMap', {})[u].e]
       /\ bg' = [u \in Slots |-> Collect(entries, gs, inprogressMap', {})[u].g]
    /\ UNCHANGED <<config, store, written, pc, ent, lastOp>>

\* ------------------------------------------- the other calls, one step each
CallerOptions == {<<>>} \cup {<<WithExpiration(d)>> : d \in 0 .. MaxExp}

\* Set(ctx, key, value, options...)
Set(key, value, options, fails) ==
    /\ store' = CacheSet(key, value, SetOptions(options), fails)
    /\ written' = Wrote(key, value, options, fails)
    /\ lastOp' = Observed([op |-> "Set", by |-> "Set", key |-> key,
                  value |-> value, given |-> options,
                  options |-> SetOptions(options),
                  ret |-> IF fails THEN StoreErr ELSE NilErr])
    /\ UNCHANGED <<config, inprogressMap, entries, bg, pc, ent>>

\* GetWithTTL made to wait while a Get of the key is in flight
GetWithTTLCallCoalesced(key, fails) ==
    /\ inprogressMap[key] = 0 \/ entries[inprogressMap[key]].closed
    /\ lastOp' = Observed([op |-> "GetWithTTL", key |-> key,
                  under |-> CacheGetWithTTL(key, fails),
                  ret |-> GetWithTTL(key, fails)])
    /\ UNCHANGED <<config, store, written, inprogressMap, entries, bg, pc, ent>>

\* GetWithTTL(ctx, key), called directly
GetWithTTLCall(key, fails) ==
    /\ lastOp' = Observed([op |-> "GetWithTTL", key |-> key,
                  under |-> CacheGetWithTTL(key, fails),
                  ret |-> GetWithTTL(key, fails)])
    /\ UNCHANGED <<config, store, written, inprogressMap, entries, bg, pc, ent>>

\* Delete that also drops the key's entry from the map
DeleteDropsRecord(key, fails) ==
    /\ store' = IF fails THEN store ELSE [store EXCEPT ![key] = Absent]
    /\ written' = IF fails THEN written ELSE [written EXCEPT ![key] = NoWrite]
    /\ inprogressMap' = [inprogressMap EXCEPT ![key] = 0]
    /\ lastOp' = Observed([op |-> "Delete", given |-> key, key |-> key,
                  ret |-> IF fails THEN StoreErr ELSE NilErr])
    /\ UNCHANGED <<config, entries, bg, pc, ent>>

\* Delete(ctx, key)
Delete(key, fails) ==
    /\ store' = IF fails THEN store ELSE [store EXCEPT ![key] = Absent]
    /\ written' = IF fails THEN written ELSE [written EXCEPT ![key] = NoWrite]
    /\ lastOp' = Observed([op |-> "Delete", given |-> key, key |-> key,
                  ret |-> IF fails THEN StoreErr ELSE NilErr])
    /\ UNCHANGED <<config, inprogressMap, entries, bg, pc, ent>>

\* store.WithInvalidateTags(tags): the options a caller may give Invalidate
InvalidateOptions == {<<>>, <<[tags |-> {"t"}]>>}

\* Invalidate(ctx, options...): the store drops the keys it holds under the
\* tags named, hit, and none when no tag is named
Invalidate(options, hit, fails) ==
    /\ options = <<>> => hit = {}
    /\ store' = IF fails THEN store
                ELSE [k \in Keys |-> IF k \in hit THEN Absent ELSE store[k]]
    /\ written' = IF fails THEN written
                  ELSE [k \in Keys |-> IF k \in hit THEN NoWrite ELSE written[k]]
    /\ lastOp' = Observed([op |-> "Invalidate", given |-> options, options |-> options,
                  ret |-> IF fails THEN StoreErr ELSE NilErr])
    /\ UNCHANGED <<config, inprogressMap, entries, bg, pc, ent>>

\* Clear(ctx)
Clear(fails) ==
    /\ store' = IF fails THEN store ELSE [k \in Keys |-> Absent]
    /\ written' = IF fails THEN written ELSE [k \in Keys |-> NoWrite]
    /\ lastOp' = Observed([op |-> "Clear", ret |-> IF fails THEN StoreErr ELSE NilErr])
    /\ UNCHANGED <<config, inprogressMap, entries, bg, pc, ent>>

\* the caller of Get cancels the context it passed (line 73, ctx)
Cancel(c) ==
    /\ ~cancelled[c]
    /\ cancelled' = [cancelled EXCEPT ![c] = TRUE]
    /\ UNCHANGED <<minimumTTL, refreshTTL, loadFunc, shouldCache, admitted, observe,
                   store, written, inprogressMap, entries, bg, pc, ent, lastOp>>

\* ------------------------------------------------- the store's own clock
\* one unit of time passes: every remaining TTL falls by one
Tick ==
    /\ \E k \in Keys : store[k].present /\ store[k].ttl > -MaxOverdue
    /\ store' = [k \in Keys |->
                   IF store[k].present /\ store[k].ttl > -MaxOverdue
                   THEN [store[k] EXCEPT !.ttl = @ - 1] ELSE store[k]]
    /\ written' = [k \in Keys |->
                     IF store[k].present /\ store[k].ttl > -MaxOverdue
                     THEN [written[k] EXCEPT !.elapsed = @ + 1] ELSE written[k]]
    /\ UNCHANGED <<config, inprogressMap, entries, bg, pc, ent, lastOp>>

\* the store drops an entry whose TTL has run out
Evict(key) ==
    /\ store[key].present
    /\ store[key].ttl <= 0
    /\ store' = [store EXCEPT ![key] = Absent]
    /\ written' = [written EXCEPT ![key] = NoWrite]
    /\ UNCHANGED <<config, inprogressMap, entries, bg, pc, ent, lastOp>>

Next ==
    \/ \E c \in Callers, k \in HotKeys : GetLoadOrStore(c, k)
    \/ \E c \in Callers : GetWait(c)
    \/ \E c \in Callers : GetLeaderRead(c)
    \/ \E c \in Callers : GetLeaderLoad(c)
    \/ \E c \in Callers : GetLeaderDelete(c)
    \/ \E c \in Callers : GetLeaderClose(c)
    \/ \E c \in Callers : GetReturn(c)
    \/ \E s \in Slots : BgStart(s)
    \/ \E s \in Slots : BgLoad(s)
    \/ \E s \in Slots : BgDelete(s)
    \/ \E k \in HotKeys, v \in SetValues, f \in BOOLEAN : Set(k, v, <<>>, f)
    \/ \E k \in HotKeys, f \in ReadFailures : GetWithTTLCall(k, f)
    \/ \E k \in HotKeys, f \in BOOLEAN : Delete(k, f)
    \/ Tick
    \/ \E k \in Keys : Evict(k)

Spec == Init /\ [][Next]_vars

\* one goroutine calling Get, Set with every option, GetWithTTL and Delete
Sequential == {"c1"}

NextCalls ==
    \/ \E c \in Sequential, k \in HotKeys : GetLoadOrStore(c, k)
    \/ \E c \in Sequential : GetWait(c)
    \/ \E c \in Sequential : GetLeaderRead(c)
    \/ \E c \in Sequential : GetLeaderLoad(c)
    \/ \E c \in Sequential : GetLeaderDelete(c)
    \/ \E c \in Sequential : GetLeaderClose(c)
    \/ \E c \in Sequential : GetReturn(c)
    \/ \E s \in Slots : BgStart(s)
    \/ \E s \in Slots : BgLoad(s)
    \/ \E s \in Slots : BgDelete(s)
    \/ \E k \in HotKeys, v \in SetValues, o \in CallerOptions, f \in BOOLEAN :
         Set(k, v, o, f)
    \/ \E k \in HotKeys, f \in ReadFailures : GetWithTTLCall(k, f)
    \/ \E k \in HotKeys, f \in BOOLEAN : Delete(k, f)
    \/ Tick
    \/ \E k \in Keys : Evict(k)

SpecCalls == InitCalls /\ [][NextCalls]_vars

\* goroutines that only call Get, over a store that ages and evicts
NextGets ==
    \/ \E c \in Callers, k \in HotKeys : GetLoadOrStore(c, k)
    \/ \E c \in Callers : GetWait(c)
    \/ \E c \in Callers : GetLeaderRead(c)
    \/ \E c \in Callers : GetLeaderLoad(c)
    \/ \E c \in Callers : GetLeaderDelete(c)
    \/ \E c \in Callers : GetLeaderClose(c)
    \/ \E c \in Callers : GetReturn(c)
    \/ \E s \in Slots : BgStart(s)
    \/ \E s \in Slots : BgLoad(s)
    \/ \E s \in Slots : BgDelete(s)
    \/ Tick
    \/ \E k \in Keys : Evict(k)

SpecGets == InitGets /\ [][NextGets]_vars

\* one goroutine calling Get while others call the operations that are
\* handed to the store as they are
NextDelegates ==
    \/ \E c \in Sequential, k \in HotKeys : GetLoadOrStore(c, k)
    \/ \E c \in Sequential : GetWait(c)
    \/ \E c \in Sequential : GetLeaderRead(c)
    \/ \E c \in Sequential : GetLeaderLoad(c)
    \/ \E c \in Sequential : GetLeaderDelete(c)
    \/ \E c \in Sequential : GetLeaderClose(c)
    \/ \E c \in Sequential : GetReturn(c)
    \/ \E s \in Slots : BgStart(s)
    \/ \E s \in Slots : BgLoad(s)
    \/ \E s \in Slots : BgDelete(s)
    \/ \E k \in HotKeys, v \in SetValues, f \in BOOLEAN : Set(k, v, <<>>, f)
    \/ \E k \in HotKeys, f \in ReadFailures : GetWithTTLCall(k, f)
    \/ \E k \in HotKeys, f \in BOOLEAN : Delete(k, f)
    \/ \E o \in InvalidateOptions, hit \in SUBSET HotKeys, f \in BOOLEAN :
         Invalidate(o, hit, f)
    \/ \E f \in BOOLEAN : Clear(f)
    \/ Tick
    \/ \E k \in Keys : Evict(k)

SpecDelegates == InitGets /\ [][NextDelegates]_vars

\* one goroutine calling Get, which may cancel its context at any time,
\* and another writing to the store
NextDetached ==
    \/ \E c \in Sequential, k \in HotKeys : GetLoadOrStore(c, k)
    \/ \E c \in Sequential : GetWait(c)
    \/ \E c \in Sequential : GetLeaderRead(c)
    \/ \E c \in Sequential : GetLeaderLoad(c)
    \/ \E c \in Sequential : GetLeaderDelete(c)
    \/ \E c \in Sequential : GetLeaderClose(c)
    \/ \E c \in Sequential : GetReturn(c)
    \/ \E c \in Sequential : Cancel(c)
    \/ \E s \in Slots : BgStart(s)
    \/ \E s \in Slots : BgLoad(s)
    \/ \E s \in Slots : BgDelete(s)
    \/ \E k \in HotKeys, v \in SetValues, f \in BOOLEAN : Set(k, v, <<>>, f)
    \/ Tick
    \/ \E k \in Keys : Evict(k)

\* The load function and the store return and the scheduler runs the
\* goroutine of line 97: each of its steps is taken once it can be.
SpecDetached ==
    /\ InitRefreshing
    /\ [][NextDetached]_vars
    /\ \A s \in Slots :
         /\ WF_vars(BgStart(s))
         /\ WF_vars(BgLoad(s))
         /\ WF_vars(BgDelete(s))

\* The Go scheduler runs every runnable goroutine, so each step of Get that
\* waits for nothing but the store is taken; the load function is the
\* caller's code and need not return, nor need the refresh be scheduled.
SpecLoadMayHang ==
    /\ InitRefreshing
    /\ [][Next]_vars
    /\ \A c \in Callers :
         /\ WF_vars(GetWait(c))
         /\ WF_vars(GetLeaderRead(c))
         /\ WF_vars(GetLeaderDelete(c))
         /\ WF_vars(GetLeaderClose(c))

\* Every call of the load function and of the store returns, and the Go
\* scheduler runs every runnable goroutine: each step of a Get that has begun
\* and each step of a refresh is taken once it can be. Whether a caller
\* begins a Get is up to the caller.
SpecReturning ==
    /\ InitRefreshing
    /\ [][NextGets]_vars
    /\ \A c \in Callers :
         /\ WF_vars(GetWait(c))
         /\ WF_vars(GetLeaderRead(c))
         /\ WF_vars(GetLeaderLoad(c))
         /\ WF_vars(GetLeaderDelete(c))
         /\ WF_vars(GetLeaderClose(c))
         /\ WF_vars(GetReturn(c))
    /\ \A s \in Slots :
         /\ WF_vars(BgStart(s))
         /\ WF_vars(BgLoad(s))
         /\ WF_vars(BgDelete(s))

\* concurrent callers of Get whose contexts may be cancelled at any moment
NextCancellable ==
    \/ NextGets
    \/ \E c \in Callers : Cancel(c)

SpecCancellable == InitRefreshing /\ [][NextCancellable]_vars

\* the key each caller asks for where callers of different keys are examined
KeyOf == [c \in Callers |-> IF c = "c1" THEN "k1" ELSE "k2"]

\* concurrent callers of Get, each with a key of its own
NextKeys ==
    \/ \E c \in Callers : GetLoadOrStore(c, KeyOf[c])
    \/ \E c \in Callers : GetWait(c)
    \/ \E c \in Callers : GetLeaderRead(c)
    \/ \E c \in Callers : GetLeaderLoad(c)
    \/ \E c \in Callers : GetLeaderDelete(c)
    \/ \E c \in Callers : GetLeaderClose(c)
    \/ \E c \in Callers : GetReturn(c)
    \/ \E s \in Slots : BgStart(s)
    \/ \E s \in Slots : BgLoad(s)
    \/ \E s \in Slots : BgDelete(s)
    \/ Tick

\* the load function returns to the leader when asked for one of HotKeys
LoadReturns(c) == GetLeaderLoad(c) /\ entries[ent[c]].key \in HotKeys

\* The Go scheduler runs every runnable goroutine and the store's calls
\* return; the load function returns for the keys of HotKeys and need not
\* return for the others, nor need a refresh be scheduled.
SpecKeys ==
    /\ InitRefreshing
    /\ [][NextKeys]_vars
    /\ \A c \in Callers :
         /\ WF_vars(GetWait(c))
         /\ WF_vars(GetLeaderRead(c))
         /\ WF_vars(LoadReturns(c))
         /\ WF_vars(GetLeaderDelete(c))
         /\ WF_vars(GetLeaderClose(c))

\* ======================================================================
\* Properties
\* ======================================================================
\* the callers whose synchronous loadAndStore for key is running
SyncReloads(key) ==
    {c \in Callers : pc[c] = "load" /\ entries[ent[c]].key = key}

\* the background goroutines for key that have not finished loadAndStore
Refreshes(key) ==
    {s \in Slots : bg[s] \in {"spawned", "load"} /\ entries[s].key = key}

\* the results returned by the callers that still hold entry s
Returned(s) == {<<r[2], r[3]>> : r \in entries[s].rets}

\* C1: for every key at most one reload or refresh is in flight at any time,
\* synchronous, background or one of each.
C1_OneReloadPerKey ==
    \A k \in Keys : Cardinality(SyncReloads(k)) + Cardinality(Refreshes(k)) <= 1

\* C1 witness: a leader's load is running while another caller of the same
\* key waits on the leader's entry.
C1_Witness ==
    \E c, d \in Callers :
        /\ c # d
        /\ pc[c] = "load"
        /\ pc[d] = "wait"
        /\ ent[d] = ent[c]

\* the result of a synchronous reload of an absent key that loaded a value
LoadedAbsent(s) ==
    /\ entries[s].class = "notfound"
    /\ entries[s].loaded # <<>>
    /\ entries[s].loaded[2] = NilErr

\* C2 as claimed: when Gets of an absent key share one entry and the load
\* returns V, all return (V, nil) after one GetWithTTL, one load and exactly
\* one Set of the underlying store.
C2_Claimed ==
    \A s \in Slots :
        LoadedAbsent(s) =>
            /\ Returned(s) \subseteq {<<entries[s].loaded[1], NilErr>>}
            /\ entries[s].nGet = 1
            /\ entries[s].nLoad = 1
            /\ entries[s].nSet = 1

\* C2 amended: as claimed, but the underlying Set is called exactly once only
\* when no configured predicate refuses V; when one does, Set is not called.
C2_SyncCoalescing ==
    \A s \in Slots :
        LoadedAbsent(s) =>
            /\ Returned(s) \subseteq {<<entries[s].loaded[1], NilErr>>}
            /\ entries[s].nGet = 1
            /\ entries[s].nLoad = 1
            /\ entries[s].nSet =
                 (IF shouldCache /\ entries[s].loaded[1] \notin admitted THEN 0 ELSE 1)

\* C2 witness: leader and waiter of an absent key have both returned the
\* loaded value, which was stored once.
C2_Witness ==
    \E s \in Slots :
        /\ LoadedAbsent(s)
        /\ entries[s].nSet = 1
        /\ {r[1] : r \in entries[s].rets} = {"leader", "waiter"}

\* the refresh of entry s has left loadAndStore
Refreshed(s) == bg[s] \in {"delete", "done"}

\* C3 as claimed: Gets that share a stale entry all return the stale value and
\* no error, and the refresh calls the load function once and Set once.
C3_Claimed ==
    \A s \in Slots :
        entries[s].class = "stale" =>
            /\ Returned(s) \subseteq {<<entries[s].read, NilErr>>}
            /\ Refreshed(s) => entries[s].nLoad = 1 /\ entries[s].nSet = 1

\* C3 amended: all return the stale value and no error; the refresh calls the
\* load function once if one is configured and never otherwise, and calls Set
\* once if the load succeeds and no predicate refuses the value, and never
\* otherwise.
C3_StaleCoalescing ==
    \A s \in Slots :
        entries[s].class = "stale" =>
            /\ Returned(s) \subseteq {<<entries[s].read, NilErr>>}
            /\ entries[s].nLoad <= 1
            /\ entries[s].nSet <= 1
            /\ Refreshed(s) =>
                 /\ entries[s].nLoad = (IF loadFunc THEN 1 ELSE 0)
                 /\ entries[s].nSet =
                      (IF /\ loadFunc
                          /\ entries[s].loaded[2] = NilErr
                          /\ ~(shouldCache /\ entries[s].loaded[1] \notin admitted)
                       THEN 1 ELSE 0)

\* C3 witness: leader and waiter have both returned the stale value and the
\* refresh has loaded and stored once.
C3_Witness ==
    \E s \in Slots :
        /\ entries[s].class = "stale"
        /\ Refreshed(s)
        /\ entries[s].nLoad = 1
        /\ entries[s].nSet = 1
        /\ {r[1] : r \in entries[s].rets} = {"leader", "waiter"}

\* C4: the callers that shared one entry all return the same (value, error):
\* a waiter returns what the leader returns.
C4_SameResult ==
    \A s \in Slots : Cardinality(Returned(s)) <= 1

\* C4 witness: on one entry the leader returned a load error and a waiter
\* returned too.
C4_Witness ==
    \E s \in Slots :
        /\ {r[1] : r \in entries[s].rets} = {"leader", "waiter"}
        /\ \E r \in entries[s].rets : r[3] = LoadErr

\* caller c is inside a Get whose entry was classified stale
OnStale(c) ==
    /\ pc[c] \in {"wait", "close"}
    /\ entries[ent[c]].class = "stale"

\* C5: a Get on a stale entry, leader or late arrival, returns without the
\* refresh: it returns even when the load function never does.
C5_NoBlockOnRefresh ==
    \A c \in Callers : OnStale(c) ~> (pc[c] = "done")

\* C5 witness: a waiter has returned from a stale entry whose refresh is
\* still inside the load function.
C5_Witness ==
    \E c \in Callers :
        /\ pc[c] = "done"
        /\ entries[ent[c]].class = "stale"
        /\ <<"waiter", entries[ent[c]].read, NilErr>> \in entries[ent[c]].rets
        /\ bg[ent[c]] = "load"

\* what the leader's read of entry key must find and do, by the store's
\* remaining ttl t and the margin: logical ttl t - margin >= 0 is fresh and
\* loads nothing; -margin <= t - margin < 0 is stale, keeps the stored value
\* and starts the refresh; below that it is expired and reloads at once
ReadRight(c) ==
    LET e == ent[c]
        k == entries[e].key
        new == entries'[e]
        m == minimumTTL
        L == store[k].ttl - m
    IN
    new.class \in {"fresh", "stale", "expired"} =>
        /\ store[k].present
        /\ new.class = (IF L >= 0 THEN "fresh"
                        ELSE IF L >= -m THEN "stale" ELSE "expired")
        /\ new.class = "fresh" =>
             /\ new.nLoad = 0
             /\ new.value = store[k].value
             /\ pc'[c] = "delete"
             /\ bg'[e] = "none"
        /\ new.class = "stale" =>
             /\ new.nLoad = 0
             /\ new.value = store[k].value
             /\ new.err = NilErr
             /\ pc'[c] = "close"
             /\ bg'[e] = "spawned"
        /\ new.class = "expired" =>
             /\ pc'[c] = (IF loadFunc THEN "load" ELSE "delete")
             /\ new.nLoad = (IF loadFunc THEN 1 ELSE 0)
             /\ bg'[e] = "none"

\* the load function runs for stale, expired and absent entries only: in
\* the goroutine for stale ones, in the leader before it returns for the others
LoadWhenDue ==
    /\ \A c \in Callers :
         pc[c] = "load" => entries[ent[c]].class \in {"expired", "notfound"}
    /\ \A s \in Slots :
         /\ bg[s] # "none" => entries[s].class = "stale"
         /\ entries[s].nLoad > 0 =>
              entries[s].class \in {"stale", "expired", "notfound"}
         /\ entries[s].class = "stale" /\ entries[s].nLoad > 0 =>
              bg[s] \in {"load", "delete", "done"}
         /\ /\ entries[s].class \in {"expired", "notfound"}
            /\ loadFunc
            /\ entries[s].closed
            => entries[s].nLoad = 1 /\ entries[s].loaded # <<>>

\* C6: Get classifies by the logical ttl L = t - m: L >= 0 fresh, no load;
\* -m <= L < 0 stale, stored value returned and load only in the background;
\* L < -m expired, load before Get returns; no load in any other case than
\* stale, expired or not found.
C6_Classification ==
    /\ [][\A c \in Callers :
            pc[c] = "getttl" /\ pc'[c] # "getttl" => ReadRight(c)]_vars
    /\ []LoadWhenDue

\* C6 witness: a leader has just classified as stale an entry at the last
\* instant of the margin (remaining ttl 0, logical ttl -m).
C6_Witness ==
    \E c \in Callers :
        /\ pc[c] = "close"
        /\ entries[ent[c]].class = "stale"
        /\ ~entries[ent[c]].closed
        /\ store[entries[ent[c]].key].present
        /\ store[entries[ent[c]].key].ttl = 0
        /\ store[entries[ent[c]].key].value = entries[ent[c]].read

\* C7: GetWithTTL returns the stored value unchanged and its ttl less the
\* margin, negative results included.
C7_TTLArithmetic ==
    [][/\ lastOp' # lastOp
       /\ lastOp'.op = "GetWithTTL"
       /\ lastOp'.under.err = NilErr
       => /\ lastOp'.under.value = store[lastOp'.key].value
          /\ lastOp'.under.ttl = store[lastOp'.key].ttl
          /\ lastOp'.ret.err = NilErr
          /\ lastOp'.ret.value = store[lastOp'.key].value
          /\ lastOp'.ret.ttl = store[lastOp'.key].ttl - minimumTTL]_vars

\* C7 witness: GetWithTTL has returned a negative ttl under a positive margin.
C7_Witness ==
    /\ lastOp.op = "GetWithTTL"
    /\ lastOp.under.err = NilErr
    /\ minimumTTL > 0
    /\ lastOp.under.ttl >= 0
    /\ lastOp.ret.ttl < 0

\* C8: Set calls the underlying Set with the same key and value and the
\* expiration margin + (caller's expiration if given and not zero, else the
\* default ttl), and returns the underlying error unchanged.
C8_SetMargin ==
    [][lastOp' # lastOp /\ lastOp'.op = "Set" /\ lastOp'.by = "Set" =>
         /\ ApplyOptions(lastOp'.options) = minimumTTL + Resolved(lastOp'.given)
         /\ IF lastOp'.ret = NilErr
            THEN store'[lastOp'.key] =
                   [present |-> TRUE, value |-> lastOp'.value,
                    ttl |-> minimumTTL + Resolved(lastOp'.given)]
            ELSE lastOp'.ret = StoreErr /\ store' = store]_vars

\* C8 witness: Set with an expiration other than the default has stored it
\* with the margin added.
C8_Witness ==
    /\ lastOp.op = "Set"
    /\ lastOp.by = "Set"
    /\ lastOp.ret = NilErr
    /\ minimumTTL > 0
    /\ Given(lastOp.given) \notin {0, refreshTTL}
    /\ store[lastOp.key].ttl = minimumTTL + Given(lastOp.given)

\* C9: every Set that reaches the underlying store, from Set or from a
\* reload, carries margin + resolved expiration; a reload's carries
\* default ttl + margin.
C9_ExtendedTTL ==
    lastOp.op = "Set" =>
        /\ ApplyOptions(lastOp.options) - minimumTTL = Resolved(lastOp.given)
        /\ lastOp.by = "reload" =>
             ApplyOptions(lastOp.options) = refreshTTL + minimumTTL

\* C9 witness: a reload has written to the store under a positive margin.
C9_Witness ==
    /\ lastOp.op = "Set"
    /\ lastOp.by = "reload"
    /\ lastOp.ret = NilErr
    /\ minimumTTL > 0

\* entry s is the reload of an absent key without a load function
NoLoaderMiss(s) == entries[s].class = "notfound" /\ ~loadFunc

\* C10: without a load function a Get of an absent key returns the zero
\* value and no error, writes nothing to the store and leaves no entry in
\* the map.
C10_NoLoaderMiss ==
    /\ [](\A s \in Slots :
            NoLoaderMiss(s) =>
                /\ Returned(s) \subseteq {<<ZeroValue, NilErr>>}
                /\ entries[s].nLoad = 0
                /\ entries[s].nSet = 0
                /\ entries[s].closed => inprogressMap[entries[s].key] # s)
    /\ [][\A c \in Callers :
            /\ pc'[c] # pc[c]
            /\ ent'[c] # 0
            /\ entries'[ent'[c]].class = "notfound"
            /\ ~loadFunc
            => store' = store]_vars

\* C10 witness: a leader has returned from such a Get and the key has no
\* entry in the map.
C10_Witness ==
    \E s \in Slots :
        /\ NoLoaderMiss(s)
        /\ <<"leader", ZeroValue, NilErr>> \in entries[s].rets
        /\ inprogressMap[entries[s].key] = 0

\* entry s was read by a leader that reloads before it returns
Synchronous(es, s) == es[s].class \in {"notfound", "expired"}

\* the load for entry s returned a value the configured predicate refuses
Refused(es, s) ==
    /\ shouldCache
    /\ es[s].loaded # <<>>
    /\ es[s].loaded[2] = NilErr
    /\ es[s].loaded[1] \notin admitted

\* C11: when the load of a reload returns V and the configured predicate
\* refuses (key, V), Set is not called and the store is left as it was, and
\* the leader and the waiters of a synchronous reload all return (V, nil).
C11_PredicateRefuses ==
    /\ [](\A s \in Slots :
            Refused(entries, s) =>
                /\ entries[s].nSet = 0
                /\ Synchronous(entries, s) =>
                     Returned(s) \subseteq {<<entries[s].loaded[1], NilErr>>})
    /\ [][\A c \in Callers :
            pc[c] = "load" /\ pc'[c] # "load" /\ Refused(entries', ent[c])
            => store' = store]_vars
    /\ [][\A s \in Slots :
            bg[s] = "load" /\ bg'[s] # "load" /\ Refused(entries', s)
            => store' = store]_vars

\* C11 witness: leader and waiter of an absent key have both returned a
\* loaded value that the predicate refused, and the key is still absent.
C11_Witness ==
    \E s \in Slots :
        /\ Refused(entries, s)
        /\ entries[s].class = "notfound"
        /\ entries[s].rets = {<<"leader", entries[s].loaded[1], NilErr>>,
                              <<"waiter", entries[s].loaded[1], NilErr>>}
        /\ ~store[entries[s].key].present

\* the load for entry s failed
LoadFailed(es, s) == es[s].loaded # <<>> /\ es[s].loaded[2] # NilErr

\* C12: when the load of a synchronous reload fails with E, the leader and
\* the waiters on its entry all return E, and nothing is written to the store.
C12_SyncLoadFails ==
    /\ [](\A s \in Slots :
            Synchronous(entries, s) /\ LoadFailed(entries, s) =>
                /\ entries[s].nSet = 0
                /\ Returned(s) \subseteq
                     {<<entries[s].loaded[1], entries[s].loaded[2]>>})
    /\ [][\A c \in Callers :
            pc[c] = "load" /\ pc'[c] # "load" /\ LoadFailed(entries', ent[c])
            => store' = store]_vars

\* C12 witness: the reload of an expired entry failed, leader and waiter have
\* both returned the load's error and the store still holds the old value.
C12_Witness ==
    \E s \in Slots :
        /\ entries[s].class = "expired"
        /\ LoadFailed(entries, s)
        /\ entries[s].rets = {<<"leader", ZeroValue, LoadErr>>,
                              <<"waiter", ZeroValue, LoadErr>>}
        /\ store[entries[s].key].present
        /\ store[entries[s].key].value = entries[s].read

\* C13: on the stale path every caller returns the stale value and no error,
\* whatever the refresh's load returns; a failed load writes nothing to the
\* store and the goroutine goes on to remove the entry from the map.
C13_RefreshErrorSwallowed ==
    /\ [](\A s \in Slots :
            entries[s].class = "stale" =>
                /\ Returned(s) \subseteq {<<entries[s].read, NilErr>>}
                /\ LoadFailed(entries, s) => entries[s].nSet = 0
                /\ LoadFailed(entries, s) /\ bg[s] # "delete" =>
                     inprogressMap[entries[s].key] # s)
    /\ [][\A s \in Slots :
            bg[s] = "load" /\ bg'[s] # "load" /\ LoadFailed(entries', s)
            => store' = store /\ bg'[s] = "delete"]_vars
    /\ [][\A s \in Slots :
            bg[s] = "delete" /\ bg'[s] # "delete"
            => inprogressMap'[entries[s].key] # s]_vars

\* C13 witness: a waiter that arrived during the refresh has returned the
\* stale value; the refresh's load failed and its entry is out of the map.
C13_Witness ==
    \E s \in Slots :
        /\ entries[s].class = "stale"
        /\ LoadFailed(entries, s)
        /\ bg[s] = "done"
        /\ inprogressMap[entries[s].key] # s
        /\ <<"waiter", entries[s].read, NilErr>> \in entries[s].rets
        /\ <<"leader", entries[s].read, NilErr>> \in entries[s].rets

\* the Set of the reload for entry s failed
SetFailed(es, s) == es[s].loaded # <<>> /\ es[s].loaded[3] = StoreErr

\* C14: when the load returns V and the store's Set then fails, a synchronous
\* Get still returns (V, nil) to the leader and to every waiter, and a
\* background refresh still goes on to remove its entry from the map.
C14_SetErrorSwallowed ==
    /\ [](\A s \in Slots :
            SetFailed(entries, s) =>
                /\ entries[s].loaded[2] = NilErr
                /\ entries[s].nSet = 1
                /\ Synchronous(entries, s) =>
                     /\ entries[s].value = entries[s].loaded[1]
                     /\ entries[s].err = NilErr
                     /\ Returned(s) \subseteq {<<entries[s].loaded[1], NilErr>>}
                /\ entries[s].class = "stale" =>
                     /\ Returned(s) \subseteq {<<entries[s].read, NilErr>>}
                     /\ bg[s] \in {"delete", "done"}
                     /\ bg[s] = "done" => inprogressMap[entries[s].key] # s)
    /\ [][\A s \in Slots :
            bg[s] = "load" /\ bg'[s] # "load" /\ SetFailed(entries', s)
            => bg'[s] = "delete" /\ store' = store]_vars
    /\ [][\A s \in Slots :
            bg[s] = "delete" /\ SetFailed(entries, s) /\ bg'[s] # "delete"
            => bg'[s] \in {"done", "none"} /\ inprogressMap'[entries[s].key] = 0]_vars

\* C14 witness: the Set of an absent key's reload failed, its leader has
\* returned and gone and its waiter has returned the loaded value, while on
\* another entry a refresh whose Set failed has finished and removed the
\* entry from the map.
C14_Witness ==
    /\ \E s \in Slots :
          /\ SetFailed(entries, s)
          /\ entries[s].class = "notfound"
          /\ entries[s].closed
          /\ entries[s].by = ""
          /\ entries[s].rets = {<<"waiter", entries[s].loaded[1], NilErr>>}
    /\ \E s \in Slots :
          /\ SetFailed(entries, s)
          /\ entries[s].class = "stale"
          /\ bg[s] = "done"
          /\ inprogressMap[entries[s].key] # s

\* what the reload of entry s is to return: what the load function returned,
\* or the zero value and no error where there is none
ReloadResult(s) ==
    IF ~loadFunc THEN {<<ZeroValue, NilErr>>}
    ELSE IF entries[s].loaded = <<>> THEN {}
    ELSE {<<entries[s].loaded[1], entries[s].loaded[2]>>}

\* C15: Get never returns the store's not-found error: when the underlying
\* GetWithTTL reports the key as not found, Get reloads and returns the
\* reload's result (the loaded value, the load's error, or the zero value
\* and no error without a load function).
C15_NotFoundReloads ==
    /\ [](\A s \in Slots :
            /\ \A r \in Returned(s) : r[2] # NotFound
            /\ entries[s].got = NotFound =>
                 /\ entries[s].class = "notfound"
                 /\ Returned(s) \subseteq ReloadResult(s)
                 /\ entries[s].nLoad <= 1
                 /\ entries[s].closed => entries[s].nLoad = (IF loadFunc THEN 1 ELSE 0))
    /\ [][\A c \in Callers :
            /\ pc[c] = "getttl"
            /\ pc'[c] # "getttl"
            /\ ~store[entries[ent[c]].key].present
            => /\ entries'[ent[c]].got # NilErr
               /\ entries'[ent[c]].got = NotFound =>
                    pc'[c] = (IF loadFunc THEN "load" ELSE "delete")]_vars

\* C15 witness: the store reported the key as not found and the leader has
\* returned the error of the load function.
C15_Witness ==
    \E s \in Slots :
        /\ entries[s].got = NotFound
        /\ ~store[entries[s].key].present
        /\ <<"leader", ZeroValue, LoadErr>> \in entries[s].rets

\* the underlying GetWithTTL failed for entry s with an error that is not
\* the *store.NotFound Get looks for
Unrecognised(es, s) == es[s].got \notin {NilErr, NotFound}

\* C16: when the underlying GetWithTTL fails with an error Get does not take
\* for not found, Get returns the zero value and that error, calls neither
\* the load function nor Set, removes the entry from the map, and every
\* waiter returns the same error.
C16_StoreErrorSurfaces ==
    /\ [](\A s \in Slots :
            Unrecognised(entries, s) =>
                /\ entries[s].class = "error"
                /\ entries[s].value = ZeroValue
                /\ entries[s].err = entries[s].got
                /\ Returned(s) \subseteq {<<ZeroValue, entries[s].got>>}
                /\ entries[s].nLoad = 0
                /\ entries[s].nSet = 0
                /\ entries[s].loaded = <<>>
                /\ bg[s] = "none"
                /\ entries[s].closed => inprogressMap[entries[s].key] # s)
    /\ [][\A c \in Callers :
            /\ pc'[c] # pc[c]
            /\ ent'[c] # 0
            /\ Unrecognised(entries', ent'[c])
            => store' = store /\ pc'[c] \in {"wait", "delete", "close", "done"}]_vars

\* C16 witness: the store answered with a store.NotFound that is not a
\* pointer; leader and waiter have both returned it and the entry is out of
\* the map, though a load function is configured.
C16_Witness ==
    \E s \in Slots :
        /\ loadFunc
        /\ entries[s].got = NotFoundValue
        /\ entries[s].rets = {<<"leader", ZeroValue, NotFoundValue>>,
                              <<"waiter", ZeroValue, NotFoundValue>>}
        /\ inprogressMap[entries[s].key] # s

\* C17: a Get that finds the entry fresh (logical ttl >= 0) returns the
\* stored value and no error, calls no load function with or without one
\* configured, writes nothing to the store, starts no goroutine, and its
\* entry is out of the map when it returns.
C17_FreshUntouched ==
    /\ [](\A s \in Slots :
            entries[s].class = "fresh" =>
                /\ Returned(s) \subseteq {<<entries[s].read, NilErr>>}
                /\ entries[s].nLoad = 0
                /\ entries[s].nSet = 0
                /\ entries[s].loaded = <<>>
                /\ bg[s] = "none"
                /\ entries[s].closed => inprogressMap[entries[s].key] # s)
    /\ [][\A c \in Callers :
            /\ pc'[c] # pc[c]
            /\ ent'[c] # 0
            /\ entries'[ent'[c]].class = "fresh"
            => /\ store' = store
               /\ pc[c] = "getttl" =>
                    /\ store[entries[ent[c]].key].present
                    /\ store[entries[ent[c]].key].ttl - minimumTTL >= 0
                    /\ entries'[ent[c]].read = store[entries[ent[c]].key].value]_vars

\* C17 witness: with a load function configured, leader and waiter have both
\* returned the stored value of a fresh entry, which is out of the map.
C17_Witness ==
    \E s \in Slots :
        /\ loadFunc
        /\ entries[s].class = "fresh"
        /\ entries[s].rets = {<<"leader", entries[s].read, NilErr>>,
                              <<"waiter", entries[s].read, NilErr>>}
        /\ entries[s].read \in SetValues
        /\ inprogressMap[entries[s].key] # s

\* the refresh of entry s is running
Refreshing(s) == bg[s] \in {"spawned", "load", "delete"}

\* C18: a refresh once started runs under the background context, not the
\* caller's: cancelling the caller's context, before or after its Get
\* returns, is not seen by the refresh's load or Set, and the refresh always
\* finishes and removes its entry from the map.
C18_DetachedRefresh ==
    /\ [](\A s \in Slots :
            /\ bg[s] # "none" => entries[s].ctx = Background
            /\ entries[s].class = "stale" /\ entries[s].loaded # <<>> =>
                 entries[s].loaded[2] # Canceled)
    /\ [][\A s \in Slots :
            bg[s] = "delete" /\ bg'[s] # "delete"
            => inprogressMap'[entries[s].key] = 0]_vars
    /\ [][cancelled' # cancelled =>
            bg' = bg /\ entries' = entries /\ inprogressMap' = inprogressMap]_vars
    /\ \A s \in Slots : Refreshing(s) ~> ~Refreshing(s)

\* C18 witness: the leader's context was cancelled before its Get returned,
\* and the refresh it started has loaded, stored and finished.
C18_Witness ==
    \E c \in Callers :
        /\ cancelled[c]
        /\ pc[c] \in {"close", "done"}
        /\ entries[ent[c]].class = "stale"
        /\ bg[ent[c]] = "done"
        /\ entries[ent[c]].loaded[2] = NilErr
        /\ entries[ent[c]].nSet = 1
        /\ inprogressMap[entries[ent[c]].key] # ent[c]

\* C19: over a store that reports the remaining ttl, GetWithTTL called d
\* after Set(k, v) with resolved expiration e, d <= e + margin and no write
\* in between, returns v with ttl e - d, negative once d > e; until
\* d = e + margin the store still holds the entry.
C19_RoundTrip ==
    /\ [](\A k \in Keys :
            /\ written[k].elapsed >= 0
            /\ written[k].elapsed < written[k].e + minimumTTL
            => store[k].present)
    /\ [][/\ lastOp' # lastOp
           /\ lastOp'.op = "GetWithTTL"
           /\ lastOp'.under.err = NilErr
           /\ written[lastOp'.key].elapsed >= 0
           /\ written[lastOp'.key].elapsed <= written[lastOp'.key].e + minimumTTL
           => /\ lastOp'.ret.err = NilErr
              /\ lastOp'.ret.value = written[lastOp'.key].value
              /\ lastOp'.ret.ttl = written[lastOp'.key].e
                                     - written[lastOp'.key].elapsed]_vars

\* C19 witness: GetWithTTL has just returned a negative ttl e - d for a value
\* set with an expiration e of its own, other than the default, d > e ago.
C19_Witness ==
    /\ lastOp.op = "GetWithTTL"
    /\ lastOp.ret.err = NilErr
    /\ minimumTTL > 0
    /\ written[lastOp.key].e # refreshTTL
    /\ written[lastOp.key].elapsed > written[lastOp.key].e
    /\ lastOp.ret.value = written[lastOp.key].value
    /\ lastOp.ret.ttl = written[lastOp.key].e - written[lastOp.key].elapsed
    /\ lastOp.ret.ttl < 0

\* C20: with margin 0 no Get takes the stale branch: no goroutine is ever
\* started and a Get that finds the logical ttl below 0 returns the reload's
\* result, not the stored value; GetWithTTL returns the store's ttl as it is
\* and Set hands the store the resolved expiration as it is.
C20_MarginZero ==
    /\ [](minimumTTL = 0 =>
            /\ \A s \in Slots :
                 /\ entries[s].class # "stale"
                 /\ bg[s] = "none"
                 /\ entries[s].class = "expired" => Returned(s) \subseteq ReloadResult(s)
            /\ lastOp.op = "GetWithTTL" /\ lastOp.under.err = NilErr =>
                 /\ lastOp.ret.ttl = lastOp.under.ttl
                 /\ lastOp.ret.value = lastOp.under.value
            /\ lastOp.op = "Set" =>
                 ApplyOptions(lastOp.options) = Resolved(lastOp.given))
    /\ [][\A c \in Callers :
            /\ minimumTTL = 0
            /\ pc[c] = "getttl"
            /\ pc'[c] # "getttl"
            /\ entries'[ent[c]].got = NilErr
            /\ store[entries[ent[c]].key].ttl < 0
            => /\ entries'[ent[c]].class = "expired"
               /\ pc'[c] \in {"load", "delete"}
               /\ bg' = bg]_vars

\* C20 witness: with margin 0 a Get found a stored value with its ttl below
\* 0 and returned the value its reload loaded instead.
C20_Witness ==
    /\ minimumTTL = 0
    /\ \E s \in Slots :
          /\ entries[s].class = "expired"
          /\ entries[s].read \in SetValues
          /\ entries[s].loaded # <<>>
          /\ entries[s].loaded[1] \in LoadValues
          /\ <<"leader", entries[s].loaded[1], NilErr>> \in entries[s].rets

\* the coalescing table and everything a Get in flight holds
table == <<inprogressMap, entries, bg, pc, ent>>

\* C21: GetWithTTL only reads the store: it never waits, even while a reload
\* of the key runs, leaves the coalescing table and the store as they are,
\* calls no load function, and when the store fails returns the zero value,
\* ttl 0 and the store's error, the margin not taken off.
C21_GetWithTTLPureRead ==
    /\ [](\A k \in HotKeys, f \in ReadFailures : ENABLED GetWithTTLCall(k, f))
    /\ [][lastOp' # lastOp /\ lastOp'.op = "GetWithTTL" =>
            /\ table' = table
            /\ store' = store
            /\ lastOp'.under.err # NilErr =>
                 lastOp'.ret = [value |-> ZeroValue, ttl |-> 0,
                                err |-> lastOp'.under.err]]_vars

\* C21 witness: GetWithTTL has returned the value a Set wrote while the
\* reload of the same key, started when it was absent, is still running.
C21_Witness ==
    \E c \in Callers :
        /\ pc[c] = "load"
        /\ entries[ent[c]].got = NotFound
        /\ inprogressMap[entries[ent[c]].key] = ent[c]
        /\ lastOp.op = "GetWithTTL"
        /\ lastOp.key = entries[ent[c]].key
        /\ lastOp.ret.err = NilErr
        /\ lastOp.ret.value \in SetValues
        /\ store[lastOp.key].present

\* C22: Delete, Invalidate and Clear call the store's operation of the same
\* name once with the arguments they were given, return its error as it is
\* and leave the coalescing table alone: no entry is removed or completed
\* and no reload or refresh is stopped.
C22_PureDelegation ==
    [][lastOp' # lastOp /\ lastOp'.op \in {"Delete", "Invalidate", "Clear"} =>
         /\ table' = table
         /\ lastOp'.ret \in {NilErr, StoreErr}
         /\ lastOp'.ret = StoreErr => store' = store
         /\ lastOp'.op = "Delete" =>
              /\ lastOp'.key = lastOp'.given
              /\ lastOp'.ret = NilErr =>
                   store' = [store EXCEPT ![lastOp'.given] = Absent]
         /\ lastOp'.op = "Invalidate" =>
              /\ lastOp'.options = lastOp'.given
              /\ \A k \in Keys : store'[k] \in {store[k], Absent}
         /\ lastOp'.op = "Clear" /\ lastOp'.ret = NilErr =>
              \A k \in Keys : store'[k] = Absent]_vars

\* C22 witness: Clear has emptied the store while the reload of an expired
\* entry is running, and the entry is still in the map.
C22_Witness ==
    \E c \in Callers :
        /\ pc[c] = "load"
        /\ entries[ent[c]].class = "expired"
        /\ inprogressMap[entries[ent[c]].key] = ent[c]
        /\ ~entries[ent[c]].closed
        /\ lastOp.op = "Clear"
        /\ lastOp.ret = NilErr
        /\ ~store[entries[ent[c]].key].present

\* C23 as claimed: on the stale path the leader stores the stale value and
\* closes the channel before the refresh starts: until the channel is closed
\* the refresh has not called the load function and the entry is in the map.
C23_Claimed ==
    \A s \in Slots :
        entries[s].class = "stale" =>
            /\ entries[s].value = entries[s].read
            /\ entries[s].err = NilErr
            /\ ~entries[s].closed =>
                 /\ entries[s].nLoad = 0
                 /\ bg[s] \in {"none", "spawned"}
                 /\ inprogressMap[entries[s].key] = s

\* C24: on the synchronous, fresh and store-error paths the leader writes the
\* result into the entry, then deletes the entry from the map, then closes
\* the channel; so an entry that is in the map with its channel closed is a
\* stale one whose refresh has not finished.
C24_DeleteBeforeClose ==
    /\ [](\A k \in Keys :
            inprogressMap[k] # 0 /\ entries[inprogressMap[k]].closed =>
                /\ entries[inprogressMap[k]].class = "stale"
                /\ Refreshing(inprogressMap[k]))
    /\ [](\A c \in Callers :
            pc[c] = "close" /\ entries[ent[c]].class # "stale" =>
                /\ inprogressMap[entries[ent[c]].key] # ent[c]
                /\ ~entries[ent[c]].closed)
    /\ [][\A c \in Callers :
            pc[c] = "close" /\ pc'[c] # "close" /\ entries[ent[c]].class # "stale"
            => /\ entries'[ent[c]].closed
               /\ entries'[ent[c]].value = entries[ent[c]].value
               /\ entries'[ent[c]].err = entries[ent[c]].err
               /\ inprogressMap' = inprogressMap]_vars

\* C24 witness: the leader of a synchronous reload has deleted its entry and
\* not yet closed the channel its waiter is blocked on, while the key's next
\* Get has not begun.
C24_Witness ==
    \E c, d \in Callers :
        /\ pc[c] = "close"
        /\ entries[ent[c]].class \in {"notfound", "expired"}
        /\ entries[ent[c]].loaded # <<>>
        /\ pc[d] = "wait"
        /\ ent[d] = ent[c]
        /\ inprogressMap[entries[ent[c]].key] = 0

\* C25 as claimed: an entry sees one GetWithTTL and at most one call of the
\* load function while it lives, and a caller of Get that arrives while the
\* entry's refresh is running finds the channel closed, reads nothing and
\* loads nothing.
C25_Claimed ==
    /\ [](\A s \in Slots : entries[s].nGet <= 1 /\ entries[s].nLoad <= 1)
    /\ [][\A d \in Callers :
            /\ pc[d] = "idle"
            /\ pc'[d] # "idle"
            /\ inprogressMap[entries'[ent'[d]].key] # 0
            /\ bg[inprogressMap[entries'[ent'[d]].key]] \in {"load", "delete"}
            => /\ pc'[d] = "wait"
               /\ entries'[ent'[d]].closed
               /\ entries'[ent'[d]].class = "stale"
               /\ entries'[ent'[d]].value = entries'[ent'[d]].read
               /\ entries'[ent'[d]].err = NilErr]_vars

\* the callers that installed entry s and have not closed its channel yet
Leaders(s) ==
    {c \in Callers : ent[c] = s /\ pc[c] \in {"getttl", "load", "delete", "close"}}

\* C26: the channel of an entry is closed once, by the caller that installed
\* the entry, and the entry's value and error are not written after the
\* close, by the leader or by the refresh: every caller of the entry returns
\* the same result.
C26_ResultFixedAtClose ==
    /\ [](\A s \in Slots :
            /\ Cardinality(Leaders(s)) <= 1
            /\ entries[s].closed => Leaders(s) = {}
            /\ Cardinality({<<r[2], r[3]>> : r \in entries[s].rets}) <= 1
            /\ \A r \in entries[s].rets :
                 entries[s].closed /\ r = <<r[1], entries[s].value, entries[s].err>>)
    /\ [][\A s \in Slots :
            /\ ~entries[s].closed /\ entries'[s].closed =>
                 \E c \in Leaders(s) : pc[c] = "close" /\ pc'[c] = "done"
            /\ entries[s].closed /\ entries'[s] # NoEntry =>
                 /\ entries'[s].closed
                 /\ entries'[s].value = entries[s].value
                 /\ entries'[s].err = entries[s].err]_vars

\* C26 witness: the refresh of a closed entry has loaded a value other than
\* the entry's, and a waiter has returned the entry's value.
C26_Witness ==
    \E s \in Slots :
        /\ entries[s].closed
        /\ bg[s] = "delete"
        /\ entries[s].loaded # <<>>
        /\ entries[s].loaded[1] # entries[s].value
        /\ <<"waiter", entries[s].value, NilErr>> \in entries[s].rets

\* the callers between LoadOrStore and the Delete of the entry they installed
Holding(k) ==
    {c \in Callers : /\ pc[c] \in {"getttl", "load", "delete"}
                     /\ entries[ent[c]].key = k}

\* the entries of key k whose refresh has been started and has not finished
RefreshingOf(k) == {s \in Slots : entries[s].key = k /\ Refreshing(s)}

\* C27: a key has an entry in inprogressMap exactly while a leader for it is
\* between LoadOrStore and Delete, or a refresh started for that entry has
\* not finished; when no Get and no refresh is running the map is empty.
C27_EntryLifetime ==
    /\ \A k \in Keys :
         /\ inprogressMap[k] # 0 <=> Holding(k) # {} \/ RefreshingOf(k) # {}
         /\ \A c \in Holding(k) : inprogressMap[k] = ent[c]
         /\ \A s \in RefreshingOf(k) : inprogressMap[k] = s
    /\ (\A c \in Callers : pc[c] = "idle") /\ (\A s \in Slots : ~Refreshing(s))
         => \A k \in Keys : inprogressMap[k] = 0

\* C27 witness: every Get has returned and the entry is still in the map,
\* held by a refresh that is inside the load function.
C27_Witness ==
    /\ \A c \in Callers : pc[c] = "idle"
    /\ \E k \in Keys : inprogressMap[k] # 0 /\ bg[inprogressMap[k]] = "load"

\* C28: when every load and every store call returns and scheduling is
\* fair, every Get returns and every entry leaves the map; a Get waits for
\* another goroutine only at the receive from its entry's channel.
C28_Termination ==
    /\ \A c \in Callers : pc[c] # "idle" ~> pc[c] = "done"
    /\ \A k \in Keys : inprogressMap[k] # 0 ~> inprogressMap[k] = 0
    /\ [](\A c \in Callers :
            /\ pc[c] = "getttl" => ENABLED GetLeaderRead(c)
            /\ pc[c] = "load" => ENABLED GetLeaderLoad(c)
            /\ pc[c] = "delete" => ENABLED GetLeaderDelete(c)
            /\ pc[c] = "close" => ENABLED GetLeaderClose(c)
            /\ pc[c] = "done" => ENABLED GetReturn(c)
            /\ pc[c] = "wait" => (ENABLED GetWait(c) <=> entries[ent[c]].closed))
    /\ [](\A s \in Slots :
            /\ bg[s] = "spawned" => ENABLED BgStart(s)
            /\ bg[s] = "load" => ENABLED BgLoad(s)
            /\ bg[s] = "delete" => ENABLED BgDelete(s))

\* C28 witness: a waiter is blocked on the channel of an entry whose leader
\* is inside the load function, after the store has failed with not found.
C28_Witness ==
    \E c, d \in Callers :
        /\ pc[c] = "load"
        /\ pc[d] = "wait"
        /\ ent[d] = ent[c]
        /\ entries[ent[c]].got = NotFound
        /\ ~ENABLED GetWait(d)

\* C29: while the load function called by a synchronous reload has not
\* returned, the entry stays in the map with its channel open, its leader
\* stays inside the load, every waiter stays at the receive and every Get of
\* the key that begins becomes a waiter; the passing of time and the
\* cancelling of any caller's context change none of this.
C29_HungLoadBlocks ==
    /\ [](\A c \in Callers :
            pc[c] = "load" =>
                /\ inprogressMap[entries[ent[c]].key] = ent[c]
                /\ ~entries[ent[c]].closed
                /\ \A d \in Callers :
                     pc[d] = "wait" /\ ent[d] = ent[c] => ~ENABLED GetWait(d))
    /\ [][\A c \in Callers :
            pc[c] = "load" /\ pc'[c] = "load" =>
                /\ ent'[c] = ent[c]
                /\ \A d \in Callers :
                     /\ pc[d] = "wait" /\ ent[d] = ent[c] =>
                          pc'[d] = "wait" /\ ent'[d] = ent[c]
                     /\ pc[d] = "idle" /\ pc'[d] # "idle"
                        /\ entries'[ent'[d]].key = entries[ent[c]].key =>
                          pc'[d] = "wait" /\ ent'[d] = ent[c]]_vars
    /\ [][\A c \in Callers :
            pc[c] = "load" /\ pc'[c] # "load" => GetLeaderLoad(c)]_vars

\* C29 witness: the leader is inside the load function of a synchronous
\* reload, a waiter is at the receive, and both contexts are cancelled.
C29_Witness ==
    \E c, d \in Callers :
        /\ pc[c] = "load"
        /\ pc[d] = "wait"
        /\ ent[d] = ent[c]
        /\ cancelled[c]
        /\ cancelled[d]

\* C30: an entry the store returns with its margin used up (ttl after the
\* margin is taken off below -margin) is not served: the leader reloads
\* before it returns and Get returns the reload's result, which is the zero
\* value and no error without a load function and the load's error when
\* the load fails.
C30_ExpiredNotServed ==
    /\ [](\A s \in Slots :
            entries[s].class = "expired" =>
                /\ entries[s].got = NilErr
                /\ Returned(s) \subseteq ReloadResult(s)
                /\ entries[s].closed =>
                     <<entries[s].value, entries[s].err>> \in ReloadResult(s))
    /\ [][\A c \in Callers :
            /\ pc[c] = "getttl"
            /\ pc'[c] # "getttl"
            /\ entries'[ent[c]].got = NilErr
            /\ store[entries[ent[c]].key].ttl - minimumTTL < -minimumTTL
            => /\ entries'[ent[c]].class = "expired"
               /\ bg'[ent[c]] = "none"
               /\ pc'[c] = (IF loadFunc THEN "load" ELSE "delete")]_vars

\* C30 witness: without a load function the leader of an expired entry has
\* returned the zero value and no error while the store still holds the
\* value it read.
C30_Witness ==
    \E s \in Slots :
        /\ entries[s].class = "expired"
        /\ ~loadFunc
        /\ entries[s].read \in SetValues
        /\ <<"leader", ZeroValue, NilErr>> \in entries[s].rets
        /\ store[entries[s].key].present
        /\ store[entries[s].key].value = entries[s].read

\* C31: keys are independent: a Get of key k takes or installs the entry of
\* k, and its steps and its refresh's leave the map and the entries of every
\* other key as they were; while the load for another key does not return,
\* every Get of a key whose load returns still returns.
C31_KeysIndependent ==
    /\ [](\A k \in Keys :
            inprogressMap[k] # 0 => entries[inprogressMap[k]].key = k)
    /\ [][\A c \in Callers, k \in Keys :
            GetLoadOrStore(c, k) => entries'[ent'[c]].key = k]_vars
    /\ [][\A c \in Callers :
            pc'[c] # pc[c] =>
                LET k == IF ent[c] # 0 THEN entries[ent[c]].key
                         ELSE entries'[ent'[c]].key
                IN \A j \in Keys \ {k} :
                       /\ inprogressMap'[j] = inprogressMap[j]
                       /\ \A s \in Slots :
                            entries[s].key = j => entries'[s] = entries[s]]_vars
    /\ [][\A s \in Slots :
            bg'[s] # bg[s] /\ bg[s] \in {"load", "delete"} =>
                \A j \in Keys \ {entries[s].key} :
                    inprogressMap'[j] = inprogressMap[j]]_vars
    /\ \A d \in Callers :
         (pc[d] # "idle" /\ entries[ent[d]].key \in HotKeys) ~> pc[d] = "done"

\* C31 witness: a leader is inside the load function for one key while
\* another caller has returned the loaded value of a different key.
C31_Witness ==
    \E c, d \in Callers :
        /\ pc[c] = "load"
        /\ entries[ent[c]].key \notin HotKeys
        /\ pc[d] = "done"
        /\ entries[ent[d]].key \in HotKeys
        /\ entries[ent[d]].class = "notfound"
        /\ \E v \in LoadValues : <<"leader", v, NilErr>> \in entries[ent[d]].rets

\* C32: no result outlives its entry's removal: a Get that finds no entry
\* of its key in the map installs a new empty entry, becomes its leader and
\* calls GetWithTTL; when the store reports not found again it reloads
\* again, whatever the earlier reload of the key returned.
C32_NothingRetained ==
    /\ [][\A c \in Callers, k \in HotKeys :
            GetLoadOrStore(c, k) /\ inprogressMap[k] = 0 =>
                /\ pc'[c] = "getttl"
                /\ entries[ent'[c]] = NoEntry
                /\ entries'[ent'[c]] = LedBy(c, k)
                /\ inprogressMap'[k] = ent'[c]]_vars
    /\ [][\A c \in Callers :
            pc[c] = "getttl" /\ pc'[c] # "getttl" =>
                /\ entries[ent[c]].nGet = 0
                /\ entries'[ent[c]].nGet = 1
                /\ entries'[ent[c]].got = NotFound =>
                     /\ entries'[ent[c]].nLoad = (IF loadFunc THEN 1 ELSE 0)
                     /\ pc'[c] = (IF loadFunc THEN "load" ELSE "delete")
                     /\ entries'[ent[c]].loaded = <<>>]_vars
    /\ [](\A c \in Callers :
            pc[c] \in {"load", "delete", "close"} => entries[ent[c]].nGet = 1)

\* C32 witness: a waiter still holds the entry of a synchronous reload that
\* failed and was removed, while a new leader of the same key, having found
\* the store without the key again, is inside the load function again.
C32_Witness ==
    \E c, d \in Callers :
        /\ pc[d] = "wait"
        /\ entries[ent[d]].closed
        /\ Synchronous(entries, ent[d])
        /\ LoadFailed(entries, ent[d])
        /\ pc[c] = "load"
        /\ ent[c] # ent[d]
        /\ entries[ent[c]].key = entries[ent[d]].key
        /\ entries[ent[c]].got = NotFound

\* the store no longer holds what the leader of entry s read from it
StoreMoved(s) ==
    \/ ~store[entries[s].key].present
    \/ store[entries[s].key].value # entries[s].read

\* C33: while the refresh of a stale entry is in flight a Get of the key
\* becomes a waiter of that entry and returns the value its leader read,
\* whatever Set or Delete has done to the store since; only a caller that
\* finds no entry in the map reads the store.
C33_SnapshotServed ==
    /\ [](\A s \in Slots :
            entries[s].class = "stale" =>
                /\ entries[s].value = entries[s].read
                /\ \A r \in entries[s].rets : r[2] = entries[s].read /\ r[3] = NilErr)
    /\ [][\A c \in Callers, k \in HotKeys :
            /\ GetLoadOrStore(c, k)
            /\ inprogressMap[k] # 0
            /\ Refreshing(inprogressMap[k])
            => /\ pc'[c] = "wait"
               /\ ent'[c] = inprogressMap[k]
               /\ entries' = entries
               /\ store' = store]_vars
    /\ [][\A c \in Callers :
            pc[c] = "wait" /\ pc'[c] # "wait" /\ entries[ent[c]].class = "stale"
            => /\ entries'[ent[c]].rets =
                    entries[ent[c]].rets
                        \cup {<<"waiter", entries[ent[c]].read, NilErr>>}
               /\ entries'[ent[c]].nGet = 1
               /\ store' = store]_vars
    /\ [][\A c \in Callers :
            pc[c] = "getttl" /\ pc'[c] # "getttl" =>
                entries[ent[c]].rets = {} /\ entries[ent[c]].nGet = 0]_vars

\* C33 witness: a waiter has returned the value the leader read while the
\* refresh is still in flight and the store holds another value, or none.
C33_Witness ==
    \E s \in Slots :
        /\ entries[s].class = "stale"
        /\ bg[s] \in {"spawned", "load"}
        /\ inprogressMap[entries[s].key] = s
        /\ StoreMoved(s)
        /\ <<"waiter", entries[s].read, NilErr>> \in entries[s].rets
        /\ \E d \in Callers : pc[d] = "wait" /\ ent[d] = s

\* what the store holds for the key of entry s once the reload's Set of the
\* value it loaded has succeeded
Reloaded(es, s) ==
    [present |-> TRUE, value |-> es[s].loaded[1], ttl |-> minimumTTL + refreshTTL]

\* the reload of entry s loaded a value loadAndStore is to store
Storing(es, s) ==
    /\ es[s].loaded # <<>>
    /\ es[s].loaded[2] = NilErr
    /\ ~(shouldCache /\ es[s].loaded[1] \notin admitted)

\* C34: the Set of a reload, synchronous or in the background, is made
\* whatever has become of the key in the store since the leader read it:
\* when it succeeds the store holds the loaded value under default ttl +
\* margin, over a value Set meanwhile and after a Delete or a Clear.
C34_ReloadWriteUnconditional ==
    /\ [][\A c \in Callers :
            pc[c] = "load" /\ pc'[c] # "load" /\ Storing(entries', ent[c]) =>
                /\ entries'[ent[c]].nSet = entries[ent[c]].nSet + 1
                /\ entries'[ent[c]].loaded[3] \in {NilErr, StoreErr}
                /\ lastOp'.op = "Set" /\ lastOp'.by = "reload"
                /\ store'[entries[ent[c]].key] =
                     (IF entries'[ent[c]].loaded[3] = NilErr
                      THEN Reloaded(entries', ent[c])
                      ELSE store[entries[ent[c]].key])]_vars
    /\ [][\A s \in Slots :
            bg[s] = "load" /\ bg'[s] # "load" /\ Storing(entries', s) =>
                /\ entries'[s].nSet = entries[s].nSet + 1
                /\ entries'[s].loaded[3] \in {NilErr, StoreErr}
                /\ lastOp'.op = "Set" /\ lastOp'.by = "reload"
                /\ store'[entries[s].key] =
                     (IF entries'[s].loaded[3] = NilErr
                      THEN Reloaded(entries', s)
                      ELSE store[entries[s].key])]_vars
    /\ [](\A s \in Slots : bg[s] = "load" => ENABLED BgLoad(s))
    /\ [](\A c \in Callers : pc[c] = "load" => ENABLED GetLeaderLoad(c))

\* C34 witness: the leader read the key from the store, a Clear has emptied
\* the store since, and the refresh, inside loadAndStore, can take the step
\* whose Set puts the key back with the loaded value.
C34_Witness ==
    \E s \in Slots :
        /\ bg[s] = "load"
        /\ entries[s].class = "stale"
        /\ entries[s].read \in SetValues
        /\ lastOp.op = "Clear"
        /\ lastOp.ret = NilErr
        /\ ~store[entries[s].key].present
        /\ ENABLED (/\ BgLoad(s)
                    /\ store'[entries[s].key].present
                    /\ store'[entries[s].key].value \in LoadValues)

\* C35: a synchronous reload runs under its leader's context alone: the
\* load fails with context.Canceled only when the leader's context is done;
\* the waiters of the entry return what the leader returns, that error
\* included; cancelling a waiter's context changes nothing else and does
\* not let the waiter return before the channel is closed.
C35_LeaderContextOnly ==
    /\ [][\A c \in Callers :
            pc[c] = "load" /\ pc'[c] # "load" =>
                /\ entries'[ent[c]].loaded[2] = Canceled => cancelled[c]
                /\ entries'[ent[c]].value = entries'[ent[c]].loaded[1]
                /\ entries'[ent[c]].err = entries'[ent[c]].loaded[2]]_vars
    /\ [](\A s \in Slots :
            Synchronous(entries, s) /\ loadFunc =>
                \A r \in entries[s].rets :
                    /\ entries[s].loaded # <<>>
                    /\ r[2] = entries[s].loaded[1]
                    /\ r[3] = entries[s].loaded[2])
    /\ [](\A d \in Callers :
            pc[d] = "wait" => (ENABLED GetWait(d) <=> entries[ent[d]].closed))
    /\ [][cancelled' # cancelled =>
            UNCHANGED <<store, inprogressMap, entries, bg, pc, ent>>]_vars
    /\ [](\A c \in Callers :
            pc[c] = "load" =>
                (ENABLED (GetLeaderLoad(c) /\ entries'[ent[c]].err = Canceled)
                    <=> cancelled[c]))

\* C35 witness: a waiter whose own context is not cancelled has returned
\* context.Canceled, the error of a load run under the leader's cancelled
\* context.
C35_Witness ==
    \E c, d \in Callers :
        /\ cancelled[c]
        /\ ~cancelled[d]
        /\ pc[d] = "done"
        /\ Synchronous(entries, ent[d])
        /\ entries[ent[d]].rets = {<<"leader", ZeroValue, Canceled>>,
                                   <<"waiter", ZeroValue, Canceled>>}

====
